---- MODULE Spec2Model ----
(***************************************************************************)
(* Model of jobstreet_app.py: the salary normaliser parse_salary, the      *)
(* cached loader load_data, the sidebar filter and the derived sets of the *)
(* tabs.  Text is a sequence of one-character strings, so that Python's    *)
(* str.replace, str.split, str.strip and int() are computed, not assumed.  *)
(***************************************************************************)
EXTENDS Integers, Sequences, FiniteSets, TLC

(* ------------------------------------------------------------------ *)
(* Bounds of the model                                                  *)
(* ------------------------------------------------------------------ *)

\* Longest concatenation of text pieces tried as the body of a salary text.
MaxPieces == 3

\* Number of concurrent dashboard sessions.
NumSessions == 2

(* ------------------------------------------------------------------ *)
(* Text                                                                 *)
(* ------------------------------------------------------------------ *)

EnDash == "EN_DASH"

Digits == <<"0", "1", "2", "3", "4", "5", "6", "7", "8", "9">>

IsDigit(c) == \E i \in 1..10 : Digits[i] = c

DigitVal(c) == (CHOOSE i \in 1..10 : Digits[i] = c) - 1

IsSpace(c) == c = " "

\* The decimal digits of a natural number.
RECURSIVE ToDigits(_)
ToDigits(n) ==
    IF n < 10 THEN <<Digits[n + 1]>>
    ELSE ToDigits(n \div 10) \o <<Digits[(n % 10) + 1]>>

\* str.startswith
StartsWith(s, p) == Len(s) >= Len(p) /\ SubSeq(s, 1, Len(p)) = p

\* str.replace(old, new): leftmost, non-overlapping occurrences; the text
\* produced by a replacement is not scanned again.
RECURSIVE Replace(_, _, _)
Replace(s, old, new) ==
    IF Len(s) < Len(old) THEN s
    ELSE IF StartsWith(s, old)
         THEN new \o Replace(SubSeq(s, Len(old) + 1, Len(s)), old, new)
         ELSE <<Head(s)>> \o Replace(Tail(s), old, new)

\* str.split(sep) for a one-character separator: always at least one segment.
RECURSIVE Split(_, _)
Split(s, sep) ==
    IF \A i \in 1..Len(s) : s[i] # sep THEN <<s>>
    ELSE LET i == CHOOSE k \in 1..Len(s) :
                     s[k] = sep /\ \A j \in 1..(k - 1) : s[j] # sep
         IN  <<SubSeq(s, 1, i - 1)>> \o Split(SubSeq(s, i + 1, Len(s)), sep)

\* str.strip(): whitespace removed at both ends.
RECURSIVE LStrip(_)
LStrip(s) == IF s # <<>> /\ IsSpace(Head(s)) THEN LStrip(Tail(s)) ELSE s

RECURSIVE RStrip(_)
RStrip(s) ==
    IF s # <<>> /\ IsSpace(s[Len(s)]) THEN RStrip(SubSeq(s, 1, Len(s) - 1)) ELSE s

Strip(s) == RStrip(LStrip(s))

\* The outcome of int(): the integer, or the ValueError it raised.
Parsed(n) == [raised |-> FALSE, val |-> n]

ValueError == [raised |-> TRUE, val |-> 0]

\* The value of a run of digits and underscores, read left to right.
RECURSIVE DigitsValue(_, _)
DigitsValue(s, acc) ==
    IF s = <<>> THEN acc
    ELSE IF Head(s) = "_" THEN DigitsValue(Tail(s), acc)
         ELSE DigitsValue(Tail(s), 10 * acc + DigitVal(Head(s)))

\* The literal int() accepts after the sign: digits, with single underscores
\* allowed only between two digits.
IsIntBody(s) ==
    /\ s # <<>>
    /\ \A i \in 1..Len(s) : IsDigit(s[i]) \/ s[i] = "_"
    /\ \A i \in 1..Len(s) :
          s[i] = "_" => /\ i > 1 /\ i < Len(s)
                        /\ IsDigit(s[i - 1]) /\ IsDigit(s[i + 1])

\* int(text): surrounding whitespace ignored, one optional sign, base 10;
\* anything else raises ValueError.
PyInt(s) ==
    LET t    == Strip(s)
        neg  == t # <<>> /\ Head(t) = "-"
        body == IF t # <<>> /\ Head(t) \in {"+", "-"} THEN Tail(t) ELSE t
    IN  IF IsIntBody(body)
        THEN Parsed(IF neg THEN 0 - DigitsValue(body, 0)
                           ELSE DigitsValue(body, 0))
        ELSE ValueError

(* ------------------------------------------------------------------ *)
(* Values of the Salary column                                          *)
(* ------------------------------------------------------------------ *)

Str(s) == [type |-> "str", val |-> s]

\* A missing cell of the CSV is the float NaN.
NaN == [type |-> "float", val |-> <<"n", "a", "n">>]

\* A cell the CSV reader took for a number.
Num(n) == [type |-> "int", val |-> ToDigits(n)]

\* isinstance(salary_str, str)
IsStr(x) == x.type = "str"

(* ------------------------------------------------------------------ *)
(* parse_salary                                                         *)
(* ------------------------------------------------------------------ *)

TokRp == <<"R", "p">>
TokIDR == <<"I", "D", "R">>
TokPerMonth == <<"p", "e", "r", " ", "m", "o", "n", "t", "h">>

\* Mutant: the en-dash is left as it is.
CleanSalaryKeepEnDash(s) ==
    Replace(Replace(Replace(s, TokRp, <<>>), TokIDR, <<>>), TokPerMonth, <<>>)

\* salary_str.replace('Rp','').replace('IDR','').replace('per month','')
\*           .replace(en-dash, '-')
CleanSalary(s) ==
    Replace(Replace(Replace(Replace(s, TokRp, <<>>), TokIDR, <<>>),
                    TokPerMonth, <<>>),
            <<EnDash>>, <<"-">>)

\* Mutant: rsplit('-', 1), which cuts at the last hyphen only.
SplitLastHyphen(s) ==
    IF \A i \in 1..Len(s) : s[i] # "-" THEN <<s>>
    ELSE LET i == CHOOSE k \in 1..Len(s) :
                     s[k] = "-" /\ \A j \in (k + 1)..Len(s) : s[j] # "-"
         IN  <<SubSeq(s, 1, i - 1), SubSeq(s, i + 1, Len(s))>>

\* salary_str.split('-')
SplitHyphen(s) == Split(s, "-")

\* Mutant: two or more segments are accepted, the first two parsed.
AtLeastTwoParts(parts) == Len(parts) >= 2

\* len(salary_parts) == 2
ExactlyTwoParts(parts) == Len(parts) = 2

\* int(segment.replace(',', '').strip())
SegmentInt(seg) == PyInt(Strip(Replace(seg, <<",">>, <<>>)))

\* Mutant: the pair is returned in ascending order.
ReturnPairOrdered(a, b) == IF a <= b THEN <<a, b>> ELSE <<b, a>>

\* return salary_min, salary_max
ReturnPair(a, b) == <<a, b>>

\* Mutant: each segment is guarded on its own and defaults to 0 alone.
TryParsePairPartial(parts) ==
    LET a == SegmentInt(parts[1])
        b == SegmentInt(parts[2])
    IN  ReturnPair(IF a.raised THEN 0 ELSE a.val,
                   IF b.raised THEN 0 ELSE b.val)

\* The try block: both segments are parsed, a ValueError of either gives (0, 0).
TryParsePair(parts) ==
    LET a == SegmentInt(parts[1])
        b == SegmentInt(parts[2])
    IN  IF a.raised \/ b.raised THEN <<0, 0>> ELSE ReturnPair(a.val, b.val)

parse_salary(x) ==
    IF IsStr(x)
    THEN LET salary_parts == SplitHyphen(CleanSalary(x.val))
         IN  IF ExactlyTwoParts(salary_parts)
             THEN TryParsePair(salary_parts)
             ELSE <<0, 0>>
    ELSE <<0, 0>>

(* ------------------------------------------------------------------ *)
(* Salary values the normaliser is applied to                           *)
(* ------------------------------------------------------------------ *)

\* Comma thousands separators, as the format "{n:,}" places them.
RECURSIVE GroupThousands(_)
GroupThousands(ds) ==
    IF Len(ds) <= 3 THEN ds
    ELSE GroupThousands(SubSeq(ds, 1, Len(ds) - 3)) \o <<",">>
             \o SubSeq(ds, Len(ds) - 2, Len(ds))

\* "Rp {a:,} - {b:,} per month"
FormatSalary(a, b) ==
    TokRp \o <<" ">> \o GroupThousands(ToDigits(a)) \o <<" ", "-", " ">>
        \o GroupThousands(ToDigits(b)) \o <<" ">> \o TokPerMonth

\* "{a:,}<en-dash>{b:,}"
FormatEnDashRange(a, b) ==
    GroupThousands(ToDigits(a)) \o <<EnDash>> \o GroupThousands(ToDigits(b))

\* Amounts formatted for the round trip: one to ten digits.
Amounts ==
    {0, 7, 10, 999, 1000, 12345, 100000, 4000000, 5000000, 6000000, 8000000,
     10000000, 1234567890}

\* "IDR 3.000.000"
TextIDRPeriods ==
    TokIDR \o <<" ", "3", ".", "0", "0", "0", ".", "0", "0", "0">>

\* The pieces a salary text is put together from; no text built from
\* them has more than ten digits, so every value int() reads stays below 2^31.
Pieces ==
    {<<"5">>, <<"5", "-", "0">>, <<"1", ",", "0">>, <<" ">>, <<"-">>,
     <<EnDash>>, <<",">>, <<"+">>, <<"_">>, <<"x">>, TokRp}

Prefixes == {<<>>, TokRp \o <<" ">>, TokIDR \o <<" ">>}

Suffixes == {<<>>, <<" ">> \o TokPerMonth}

RECURSIVE Concat(_)
Concat(ss) == IF ss = <<>> THEN <<>> ELSE Head(ss) \o Concat(Tail(ss))

PieceTexts ==
    {pre \o Concat(body) \o suf :
        pre \in Prefixes,
        body \in UNION {[1..k -> Pieces] : k \in 0..MaxPieces},
        suf \in Suffixes}

\* The formatted ranges with the amounts they were formatted from.
RoundTripCases ==
    {[text |-> Str(FormatSalary(a, b)), a |-> a, b |-> b] :
        a \in Amounts, b \in Amounts}

EnDashCases ==
    {[text |-> Str(FormatEnDashRange(a, b)), a |-> a, b |-> b] :
        a \in Amounts, b \in Amounts}

SalaryInputs ==
    {Str(t) : t \in PieceTexts}
        \cup {c.text : c \in RoundTripCases}
        \cup {c.text : c \in EnDashCases}
        \cup {Str(TextIDRPeriods), NaN, Num(0), Num(5000000)}

\* The text with every en-dash replaced by an ASCII hyphen.
WithHyphens(x) ==
    IF IsStr(x) THEN Str(Replace(x.val, <<EnDash>>, <<"-">>)) ELSE x

(* ------------------------------------------------------------------ *)
(* Posting dates                                                        *)
(* ------------------------------------------------------------------ *)

Date(y, m, d) == [nat |-> FALSE, y |-> y, m |-> m, d |-> d]

\* The absent marker pd.to_datetime gives under errors='coerce'.
NaT == [nat |-> TRUE, y |-> 0, m |-> 0, d |-> 0]

IsLeap(y) == (y % 4 = 0 /\ y % 100 # 0) \/ y % 400 = 0

DaysInMonth(y, m) ==
    IF m = 2 THEN (IF IsLeap(y) THEN 29 ELSE 28)
    ELSE IF m \in {4, 6, 9, 11} THEN 30 ELSE 31

\* Text of the shape YYYY-MM-DD naming a day of the calendar.
IsIsoDate(t) ==
    /\ Len(t) = 10
    /\ t[5] = "-" /\ t[8] = "-"
    /\ \A i \in {1, 2, 3, 4, 6, 7, 9, 10} : IsDigit(t[i])
    /\ LET y == DigitsValue(SubSeq(t, 1, 4), 0)
           m == DigitsValue(SubSeq(t, 6, 7), 0)
           d == DigitsValue(SubSeq(t, 9, 10), 0)
       IN  y >= 1 /\ m \in 1..12 /\ d \in 1..DaysInMonth(y, m)

\* pd.to_datetime(cell, errors='coerce'): a missing cell and text that names
\* no date both become NaT, nothing is raised.
to_datetime(x) ==
    IF IsStr(x) /\ IsIsoDate(x.val)
    THEN Date(DigitsValue(SubSeq(x.val, 1, 4), 0),
              DigitsValue(SubSeq(x.val, 6, 7), 0),
              DigitsValue(SubSeq(x.val, 9, 10), 0))
    ELSE NaT

(* ------------------------------------------------------------------ *)
(* The file jobstreet_all_cleaned.csv                                   *)
(* ------------------------------------------------------------------ *)

RawRow(salary, date, category) ==
    [Salary |-> salary, Date |-> date, Category |-> category]

Jan15 == Str(<<"2", "0", "2", "4", "-", "0", "1", "-", "1", "5">>)
Jan16 == Str(<<"2", "0", "2", "4", "-", "0", "1", "-", "1", "6">>)
Feb30 == Str(<<"2", "0", "2", "4", "-", "0", "2", "-", "3", "0">>)
NotADate == Str(<<"n", "/", "a">>)

FileA ==
    << RawRow(Str(FormatSalary(5000000, 10000000)), Jan15, "IT"),
       RawRow(Str(FormatEnDashRange(10000000, 5000000)), Feb30, "IT"),
       RawRow(Str(TextIDRPeriods), Jan15, "Sales"),
       RawRow(NaN, NotADate, "Sales"),
       RawRow(Str(FormatEnDashRange(0, 5000000)), Jan16, "IT") >>

FileB ==
    << RawRow(Str(FormatEnDashRange(4000000, 6000000)), Jan16, "Sales"),
       RawRow(Str(FormatSalary(5000000, 5000000) \o <<"x">>), NaN, "IT"),
       RawRow(Str(FormatSalary(5000000, 8000000)), Jan16, "Sales"),
       RawRow(Num(5000000), NotADate, "Sales") >>

Files == {FileA, FileB}

(* ------------------------------------------------------------------ *)
(* load_data and the filter                                             *)
(* ------------------------------------------------------------------ *)

\* The body of load_data: one pass over the rows read from the file.
load_data_body(rows) ==
    [i \in 1..Len(rows) |->
        LET pair == parse_salary(rows[i].Salary)
        IN  [Category  |-> rows[i].Category,
             Date      |-> to_datetime(rows[i].Date),
             SalaryMin |-> pair[1],
             SalaryMax |-> pair[2]]]

\* What the body computes from each file, evaluated once.
TableOf == [f \in Files |-> load_data_body(f)]

\* Mutant: no memoisation, every call runs the body.
CacheNeverHit(c) == FALSE

\* @st.cache_data on a function without arguments: one entry, no ttl, no
\* max_entries; a call finds the entry once a call has stored it.
CacheHit(c) == c # <<>>

SliderMin == 0
SliderMax == 10000000
SliderStep == 100000
DefaultMinSalary == 0
DefaultMaxSalary == 10000000

SliderValues == {SliderMin + k * SliderStep :
                    k \in 0..((SliderMax - SliderMin) \div SliderStep)}

\* The slider positions tried for the lower and for the upper bound.
MinSalaryStops == {v \in SliderValues : v \in {0, 10000000}}

MaxSalaryStops == {v \in SliderValues : v \in {5000000, 10000000}}

\* df['Category'].unique()
CategoryOptions(df) == {df[i].Category : i \in DOMAIN df}

\* df[df['Category'].isin(selected_category)], as the index labels kept.
CategoryMask(df, selected) == {i \in DOMAIN df : df[i].Category \in selected}

\* Mutant: the lower bound is strict.
SalaryMaskStrict(df, rows, lo, hi) ==
    {i \in rows : df[i].SalaryMin > lo /\ df[i].SalaryMax <= hi}

\* (Salary Min >= min_salary) & (Salary Max <= max_salary)
SalaryMask(df, rows, lo, hi) ==
    {i \in rows : df[i].SalaryMin >= lo /\ df[i].SalaryMax <= hi}

filtered_df(df, selected, lo, hi) ==
    SalaryMask(df, CategoryMask(df, selected), lo, hi)

\* Mutant: groupby(..., dropna=False) keeps a bucket for NaT.
GroupKeysWithNaT(df, rows) == {df[i].Date : i \in rows}

\* The keys of groupby('Date Posted Clean'): dropna=True is the default.
GroupKeys(df, rows) == {df[i].Date : i \in {j \in rows : ~df[j].Date.nat}}

\* groupby('Date Posted Clean').size()
job_per_day(df, rows) ==
    [d \in GroupKeys(df, rows) |-> Cardinality({i \in rows : df[i].Date = d})]

\* Mutant: zero minimum salaries are kept.
gajiNonNegative(df, rows) == {i \in rows : df[i].SalaryMin >= 0}

\* filtered_df[filtered_df['Salary Min'] > 0]
gaji(df, rows) == {i \in rows : df[i].SalaryMin > 0}

\* filtered_df[filtered_df['Salary Max'] > 0]
valid_data(df, rows) == {i \in rows : df[i].SalaryMax > 0}

\* Mutant: the rows filtered out are dropped from the shared table in place.
RECURSIVE KeepRows(_, _, _)
KeepRows(df, rows, i) ==
    IF i > Len(df) THEN <<>>
    ELSE (IF i \in rows THEN <<df[i]>> ELSE <<>>) \o KeepRows(df, rows, i + 1)

BaseTableFilteredInPlace(df, rows) == KeepRows(df, rows, 1)

\* The table load_data returned, after the script's filtering: boolean-mask
\* indexing builds new frames and df is assigned nowhere after line 41.
BaseTableAfterScript(df, rows) == df

(* ------------------------------------------------------------------ *)
(* State                                                                *)
(* ------------------------------------------------------------------ *)

VARIABLES
    salary_str,   \* the argument of a call of parse_salary
    called,       \* whether that call has returned
    result,       \* what it returned
    csv,          \* the rows of jobstreet_all_cleaned.csv on disk
    cache,        \* the entry st.cache_data holds for load_data: <<>> or <<df>>
    bodyRuns,     \* how often the body of load_data has executed
    firstLoad,    \* <<>> or <<the table the first execution computed>>
    staleHit,     \* a call returned the cached table after the file changed
    session       \* per session: the widget values and the script's variables

vars ==
    <<salary_str, called, result, csv, cache, bodyRuns, firstLoad, staleHit,
      session>>

parseVars == <<salary_str, called, result>>

dashVars == <<csv, cache, bodyRuns, firstLoad, staleHit, session>>

Sessions == 1..NumSessions

NoCounts == [d \in {} |-> 0]

NewSession ==
    [ran |-> FALSE, selected_category |-> {}, min_salary |-> DefaultMinSalary,
     max_salary |-> DefaultMaxSalary, df |-> <<>>, filtered_df |-> {},
     job_per_day |-> NoCounts, gaji |-> {}, valid_data |-> {}]

DashInit ==
    /\ cache = <<>>
    /\ bodyRuns = 0
    /\ firstLoad = <<>>
    /\ staleHit = FALSE
    /\ session = [s \in Sessions |-> NewSession]

(* ------------------------------------------------------------------ *)
(* A call of parse_salary                                               *)
(* ------------------------------------------------------------------ *)

ParseInit ==
    /\ salary_str \in SalaryInputs
    /\ called = FALSE
    /\ result = <<>>
    /\ csv = FileA
    /\ DashInit

CallParseSalary ==
    /\ ~called
    /\ called' = TRUE
    /\ result' = parse_salary(salary_str)
    /\ UNCHANGED <<salary_str, dashVars>>

ParseNext == CallParseSalary

SpecParse == ParseInit /\ [][ParseNext]_vars

(* ------------------------------------------------------------------ *)
(* The dashboard: one script run per interaction                        *)
(* ------------------------------------------------------------------ *)

Init ==
    /\ salary_str = NaN
    /\ called = FALSE
    /\ result = <<>>
    /\ csv \in Files
    /\ DashInit

\* df = load_data(): the cached table on a hit, else the body's result.
load_data ==
    IF CacheHit(cache)
    THEN [df |-> cache[1], body |-> 0]
    ELSE [df |-> load_data_body(csv), body |-> 1]

\* The whole script, top to bottom, for session s with the widget values
\* selected, lo and hi.
ScriptRun(s, selected, lo, hi) ==
    LET loaded == load_data
        df     == loaded.df
        rows   == filtered_df(df, selected, lo, hi)
    IN  /\ bodyRuns' = bodyRuns + loaded.body
        /\ firstLoad' = IF firstLoad = <<>> THEN <<df>> ELSE firstLoad
        /\ staleHit' = (staleHit \/
                          (loaded.body = 0 /\ df # TableOf[csv]))
        /\ cache' = <<BaseTableAfterScript(df, rows)>>
        /\ session' = [session EXCEPT ![s] =
              [ran |-> TRUE, selected_category |-> selected,
               min_salary |-> lo, max_salary |-> hi, df |-> df,
               filtered_df |-> rows,
               job_per_day |-> job_per_day(df, rows),
               gaji |-> gaji(df, rows),
               valid_data |-> valid_data(df, rows)]]
        /\ UNCHANGED <<csv, parseVars>>

\* The first run of a session: every widget has its default.
Connect(s) ==
    /\ ~session[s].ran
    /\ ScriptRun(s, CategoryOptions(load_data.df),
                 DefaultMinSalary, DefaultMaxSalary)

\* A widget is changed and the script runs again with the other widgets'
\* values as they were.
ChangeCategories(s) ==
    /\ session[s].ran
    /\ \E selected \in SUBSET CategoryOptions(load_data.df) :
          /\ selected # session[s].selected_category
          /\ ScriptRun(s, selected, session[s].min_salary,
                       session[s].max_salary)

ChangeMinSalary(s) ==
    /\ session[s].ran
    /\ \E lo \in MinSalaryStops \ {session[s].min_salary} :
          ScriptRun(s, session[s].selected_category \cap
                          CategoryOptions(load_data.df),
                    lo, session[s].max_salary)

ChangeMaxSalary(s) ==
    /\ session[s].ran
    /\ \E hi \in MaxSalaryStops \ {session[s].max_salary} :
          ScriptRun(s, session[s].selected_category \cap
                          CategoryOptions(load_data.df),
                    session[s].min_salary, hi)

\* The file is replaced on disk while the server runs.
FileRewritten ==
    /\ \E f \in Files \ {csv} : csv' = f
    /\ UNCHANGED <<cache, bodyRuns, firstLoad, staleHit, session, parseVars>>

Next ==
    \/ \E s \in Sessions : Connect(s)
    \/ \E s \in Sessions : ChangeCategories(s)
    \/ \E s \in Sessions : ChangeMinSalary(s)
    \/ \E s \in Sessions : ChangeMaxSalary(s)
    \/ FileRewritten

Spec == Init /\ [][Next]_vars

(* ------------------------------------------------------------------ *)
(* Properties of parse_salary, checked under SpecParse                  *)
(* ------------------------------------------------------------------ *)

\* The segments parse_salary splits a text into.
SegmentsOf(x) == SplitHyphen(CleanSalary(x.val))

(* C1: round trip.  For all non-negative integers a and b, a > b included,  *)
(* parse_salary applied to "Rp {a:,} - {b:,} per month" returns exactly     *)
(* (a, b): nothing is reordered or clamped.                                 *)
C1_RoundTrip ==
    called =>
        \A c \in RoundTripCases :
            salary_str = c.text => result = <<c.a, c.b>>

C1_Witness ==
    /\ called
    /\ \E c \in RoundTripCases :
          /\ c.a > c.b /\ c.b >= 1000
          /\ salary_str = c.text
          /\ result = <<c.a, c.b>>

(* C2: parse_salary returns (0, 0) for every value that does not split into *)
(* exactly two segments: every value that is not text, every text without a *)
(* hyphen after cleanup, every text with more than one hyphen after cleanup.*)
C2_NotTwoSegments ==
    called =>
        /\ ~IsStr(salary_str) => result = <<0, 0>>
        /\ IsStr(salary_str) =>
              (Len(SegmentsOf(salary_str)) # 2 => result = <<0, 0>>)

C2_Witness ==
    /\ called
    /\ IsStr(salary_str)
    /\ Len(SegmentsOf(salary_str)) > 2
    /\ \A i \in 1..Len(SegmentsOf(salary_str)) :
          ~SegmentInt(SegmentsOf(salary_str)[i]).raised
    /\ result = <<0, 0>>

(* C3: parse_salary always returns a pair of integers, and when the text    *)
(* splits into exactly two segments of which at least one does not parse as *)
(* an integer, the pair is (0, 0): no parsed segment survives beside a      *)
(* default.                                                                 *)
C3_AllOrNothing ==
    called =>
        /\ Len(result) = 2 /\ result[1] \in Int /\ result[2] \in Int
        /\ IsStr(salary_str) =>
              LET parts == SegmentsOf(salary_str)
              IN  (/\ Len(parts) = 2
                   /\ \/ SegmentInt(parts[1]).raised
                      \/ SegmentInt(parts[2]).raised)
                     => result = <<0, 0>>

C3_Witness ==
    /\ called
    /\ IsStr(salary_str)
    /\ Len(SegmentsOf(salary_str)) = 2
    /\ \E i \in 1..2 :
          /\ SegmentInt(SegmentsOf(salary_str)[i]).raised
          /\ ~SegmentInt(SegmentsOf(salary_str)[3 - i]).raised
          /\ SegmentInt(SegmentsOf(salary_str)[3 - i]).val > 0
    /\ result = <<0, 0>>

(* C4: for every value, text or not, both components of the pair returned   *)
(* by parse_salary are integers >= 0, also for text with signs or further    *)
(* dashes.                                                                   *)
C4_NonNegative ==
    called => /\ result[1] \in Int /\ result[1] >= 0
              /\ result[2] \in Int /\ result[2] >= 0

\* A text that starts with a minus sign in front of a number: "-5-0".
C4_Witness ==
    /\ called
    /\ IsStr(salary_str)
    /\ Len(SegmentsOf(salary_str)) = 3
    /\ SegmentsOf(salary_str)[1] = <<>>
    /\ ~SegmentInt(SegmentsOf(salary_str)[2]).raised
    /\ SegmentInt(SegmentsOf(salary_str)[2]).val > 0
    /\ ~SegmentInt(SegmentsOf(salary_str)[3]).raised
    /\ result = <<0, 0>>

(* C5: the en-dash is normalised before the split.  For every text,          *)
(* parse_salary returns what it returns for the text with each en-dash       *)
(* replaced by a hyphen, and two comma-grouped integers joined by one        *)
(* en-dash come back as those two integers.                                  *)
C5_DashNormalised ==
    called =>
        /\ result = parse_salary(WithHyphens(salary_str))
        /\ \A c \in EnDashCases :
              salary_str = c.text => result = <<c.a, c.b>>

C5_Witness ==
    /\ called
    /\ salary_str = Str(FormatEnDashRange(4000000, 6000000))
    /\ result = <<4000000, 6000000>>

(* ------------------------------------------------------------------ *)
(* Properties of the dashboard, checked under Spec                      *)
(* ------------------------------------------------------------------ *)

\* The sessions whose script has run.
Ran == {s \in Sessions : session[s].ran}

\* A record whose Salary Range is the sentinel pair.
IsSentinel(row) == row.SalaryMin = 0 /\ row.SalaryMax = 0

RECURSIVE SumOver(_, _)
SumOver(f, D) ==
    IF D = {} THEN 0
    ELSE LET d == CHOOSE x \in D : TRUE IN f[d] + SumOver(f, D \ {d})

(* C6, as claimed: for every setting of the category selection and of the   *)
(* two salary bounds, a record whose Salary Range is (0, 0) is not in the    *)
(* filtered record set the salary range filter produces.                     *)
C6_SentinelNotInFiltered ==
    \A s \in Ran :
        \A i \in session[s].filtered_df : ~IsSentinel(session[s].df[i])

(* C6, amended: for every setting of the controls a record whose Salary      *)
(* Range is (0, 0) is in neither set the salary tab analyses (gaji needs     *)
(* Salary Min > 0, valid_data needs Salary Max > 0); the range filter itself *)
(* keeps it exactly when its category is selected and the lower bound is 0.  *)
C6_SentinelNotInSalaryTab ==
    \A s \in Ran :
        LET r == session[s]
        IN  /\ r.gaji \subseteq r.filtered_df
            /\ r.valid_data \subseteq r.filtered_df
            /\ \A i \in r.gaji : r.df[i].SalaryMin > 0
            /\ \A i \in r.valid_data : r.df[i].SalaryMax > 0
            /\ \A i \in DOMAIN r.df :
                  IsSentinel(r.df[i]) =>
                      /\ i \notin r.gaji
                      /\ i \notin r.valid_data
                      /\ i \in r.filtered_df <=>
                            /\ r.df[i].Category \in r.selected_category
                            /\ r.min_salary = 0

C6_Witness ==
    \E s \in Ran :
        LET r == session[s]
        IN  /\ r.gaji # {}
            /\ r.valid_data # r.gaji
            /\ \E i \in r.filtered_df : IsSentinel(r.df[i])

(* C7: over any sequence of script runs the body of load_data executes at    *)
(* most once, every invocation returns the table the first one computed,     *)
(* and the cache entry, once stored, is never dropped.                       *)
C7_LoadOnce ==
    /\ bodyRuns <= 1
    /\ firstLoad # <<>> => (bodyRuns = 1 /\ cache # <<>>)
    /\ \A s \in Ran : firstLoad # <<>> /\ session[s].df = firstLoad[1]

\* Every session has run, the body ran once, and a run after the file was
\* replaced still got the table of the first run.
C7_Witness ==
    /\ Ran = Sessions
    /\ bodyRuns = 1
    /\ staleHit
    /\ \A s \in Sessions : session[s].df = firstLoad[1]

(* C8: filtering writes nothing shared.  Whatever the sessions do, the       *)
(* cached table stays the one load_data computed, derived fields included,   *)
(* and each session's filtered view is the filter of that table under the    *)
(* session's own control values.                                             *)
C8_NoSharedWrites ==
    /\ firstLoad # <<>> => cache = firstLoad
    /\ \A s \in Ran :
          session[s].filtered_df =
              filtered_df(firstLoad[1], session[s].selected_category,
                          session[s].min_salary, session[s].max_salary)

C8_Witness ==
    /\ cache = firstLoad
    /\ \E s \in Ran, t \in Ran :
          /\ s # t
          /\ session[s].min_salary # session[t].min_salary
          /\ session[s].selected_category # session[t].selected_category
          /\ session[s].filtered_df # {}
          /\ session[t].filtered_df # {}
          /\ session[s].filtered_df # session[t].filtered_df

(* C9: a posting date that cannot be parsed is the absent marker, and the    *)
(* per-day counts of every filtered record set have no bucket for it: their  *)
(* sum is the number of filtered records whose parsed date is present.       *)
C9_NaTDropsOut ==
    \A s \in Ran :
        LET r == session[s]
        IN  /\ \A i \in DOMAIN r.df :
                  \/ r.df[i].Date = NaT
                  \/ /\ ~r.df[i].Date.nat
                     /\ r.df[i].Date.m \in 1..12
                     /\ r.df[i].Date.d \in
                            1..DaysInMonth(r.df[i].Date.y, r.df[i].Date.m)
            /\ NaT \notin DOMAIN r.job_per_day
            /\ SumOver(r.job_per_day, DOMAIN r.job_per_day) =
                  Cardinality({i \in r.filtered_df : ~r.df[i].Date.nat})

C9_Witness ==
    \E s \in Ran :
        LET r == session[s]
        IN  /\ \E i \in r.filtered_df : r.df[i].Date = NaT
            /\ \E d \in DOMAIN r.job_per_day : r.job_per_day[d] >= 2

(* C10: a record is in the filtered record set exactly when its category is  *)
(* selected, its Salary Min is >= the lower bound and its Salary Max is <=   *)
(* the upper bound; the set is a subset of the base table, and the lower     *)
(* bound may exceed the upper one.                                           *)
C10_FilterMembership ==
    \A s \in Ran :
        LET r == session[s]
        IN  /\ r.filtered_df \subseteq DOMAIN r.df
            /\ \A i \in DOMAIN r.df :
                  i \in r.filtered_df <=>
                      /\ r.df[i].Category \in r.selected_category
                      /\ r.df[i].SalaryMin >= r.min_salary
                      /\ r.df[i].SalaryMax <= r.max_salary

\* The lower bound above the upper one, and a record still passes.
C10_Witness ==
    \E s \in Ran :
        /\ session[s].min_salary > session[s].max_salary
        /\ session[s].filtered_df # {}

====
